---------------------------- MODULE Spec2Model ----------------------------
(***************************************************************************)
(* Model of the model-identity codec, of the label-hierarchy mapper and    *)
(* of the training loop of gatech-sysml/sam (src/src/embeddings.py,        *)
(* src/src/evaluate.py, src/src/evaluate_multiclass.py,                    *)
(* src/src/train_multiclass.py, src/src/utility/cifar_utils.py).           *)
(*                                                                         *)
(* Python strings are TLA+ strings (TLC evaluates Len, \o and SubSeq on    *)
(* them).  Every Python value the modelled code can produce is a record    *)
(* tagged by its type in field t; a raised exception is a value too.       *)
(***************************************************************************)
EXTENDS Integers, Sequences, FiniteSets, TLC

(***************************************************************************)
(* Python values.                                                          *)
(***************************************************************************)
PyStr(s) == [t |-> "str", s |-> s]
PyInt(n) == [t |-> "int", n |-> n]
PyNone == [t |-> "None"]
PyTuple(items) == [t |-> "tuple", items |-> items]
PyList(items) == [t |-> "list", items |-> items]
Raise(exc, msg) == [t |-> "raise", exc |-> exc, msg |-> msg]

IsRaise(v) == v.t = "raise"

(***************************************************************************)
(* The str methods the code uses.                                          *)
(***************************************************************************)
Min(S) == CHOOSE x \in S : \A y \in S : x <= y

\* Positions at which sub occurs in s.
Occurrences(s, sub) ==
    {i \in 1..(Len(s) - Len(sub) + 1) : SubSeq(s, i, i + Len(sub) - 1) = sub}

\* sub in s
Contains(s, sub) == Occurrences(s, sub) # {}

\* s.startswith(prefix), s.endswith(suffix)
StartsWith(s, prefix) ==
    Len(prefix) <= Len(s) /\ SubSeq(s, 1, Len(prefix)) = prefix

EndsWith(s, suffix) ==
    Len(suffix) <= Len(s) /\ SubSeq(s, Len(s) - Len(suffix) + 1, Len(s)) = suffix

\* s.replace(old, new): every non-overlapping occurrence, found left to
\* right; an empty old occurs before every character and at the end.
RECURSIVE Replace(_, _, _)
Replace(s, old, new) ==
    IF old = ""
    THEN IF s = "" THEN new
         ELSE new \o SubSeq(s, 1, 1) \o Replace(SubSeq(s, 2, Len(s)), old, new)
    ELSE IF ~Contains(s, old) THEN s
    ELSE LET i == Min(Occurrences(s, old))
         IN  SubSeq(s, 1, i - 1) \o new
                 \o Replace(SubSeq(s, i + Len(old), Len(s)), old, new)

\* s.split(sep), sep non-empty: a list with at least one element.
RECURSIVE Split(_, _)
Split(s, sep) ==
    IF ~Contains(s, sep) THEN <<s>>
    ELSE LET i == Min(Occurrences(s, sep))
         IN  <<SubSeq(s, 1, i - 1)>> \o Split(SubSeq(s, i + Len(sep), Len(s)), sep)

\* list[-1]
Last(list) == list[Len(list)]

(***************************************************************************)
(* int(x) and str(n) on decimal numerals.                                  *)
(***************************************************************************)
Digits == <<"0", "1", "2", "3", "4", "5", "6", "7", "8", "9">>

IsDigit(c) == \E d \in 1..10 : Digits[d] = c

DigitValue(c) == (CHOOSE d \in 1..10 : Digits[d] = c) - 1

IsNumeral(s) == Len(s) > 0 /\ \A i \in 1..Len(s) : IsDigit(SubSeq(s, i, i))

RECURSIVE NumeralValue(_)
NumeralValue(s) ==
    IF s = "" THEN 0
    ELSE 10 * NumeralValue(SubSeq(s, 1, Len(s) - 1))
             + DigitValue(SubSeq(s, Len(s), Len(s)))

\* int(s) for a str s: an optional sign and at least one digit (the modelled
\* names hold no blank and a split element holds no underscore), else
\* ValueError.
IntOfStr(s) ==
    IF IsNumeral(s) THEN PyInt(NumeralValue(s))
    ELSE IF Len(s) > 1 /\ SubSeq(s, 1, 1) = "-" /\ IsNumeral(SubSeq(s, 2, Len(s)))
         THEN PyInt(0 - NumeralValue(SubSeq(s, 2, Len(s))))
    ELSE IF Len(s) > 1 /\ SubSeq(s, 1, 1) = "+" /\ IsNumeral(SubSeq(s, 2, Len(s)))
         THEN PyInt(NumeralValue(SubSeq(s, 2, Len(s))))
    ELSE Raise("ValueError", "invalid literal for int() with base 10")

\* int(v) for any value v; an exception raised while computing v propagates.
int(v) ==
    IF IsRaise(v) THEN v
    ELSE IF v.t = "int" THEN v
    ELSE IF v.t = "str" THEN IntOfStr(v.s)
    ELSE Raise("TypeError", "int() argument must be a string, a bytes-like object or a number")

\* str(n) for an int n.
RECURSIVE StrOfNat(_)
StrOfNat(n) ==
    IF n < 10 THEN Digits[n + 1]
    ELSE StrOfNat(n \div 10) \o Digits[(n % 10) + 1]

str(n) == IF n < 0 THEN "-" \o StrOfNat(0 - n) ELSE StrOfNat(n)

(***************************************************************************)
(* utility/cifar_utils.py: the label hierarchy.  A tuple or array is a     *)
(* sequence (Python index i is position i + 1); a dict is the sequence of  *)
(* its <<key, value>> items in insertion order.                            *)
(***************************************************************************)
coarse_classes ==
    << "aquatic_mammals", "fish", "flowers", "food_containers",
       "fruit_and_vegetables", "household_electrical_devices",
       "household_furniture", "insects", "large_carnivores",
       "large_man-made_outdoor_things", "large_natural_outdoor_scenes",
       "large_omnivores_and_herbivores", "medium_mammals",
       "non-insect_invertebrates", "people", "reptiles", "small_mammals",
       "trees", "vehicles_1", "vehicles_2" >>

coarse_idx_to_class ==
    << <<0, "aquatic_mammals">>, <<1, "fish">>, <<2, "flowers">>,
       <<3, "food_containers">>, <<4, "fruit_and_vegetables">>,
       <<5, "household_electrical_devices">>, <<6, "household_furniture">>,
       <<7, "insects">>, <<8, "large_carnivores">>,
       <<9, "large_man-made_outdoor_things">>,
       <<10, "large_natural_outdoor_scenes">>,
       <<11, "large_omnivores_and_herbivores">>, <<12, "medium_mammals">>,
       <<13, "non-insect_invertebrates">>, <<14, "people">>,
       <<15, "reptiles">>, <<16, "small_mammals">>, <<17, "trees">>,
       <<18, "vehicles_1">>, <<19, "vehicles_2">> >>

\* coarse_class_to_idx with the indices of vehicles_1 and vehicles_2 exchanged.
coarse_class_to_idx_vehicles_exchanged ==
    [i \in DOMAIN coarse_classes |->
        <<coarse_classes[i],
          IF coarse_classes[i] = "vehicles_1" THEN i
          ELSE IF coarse_classes[i] = "vehicles_2" THEN i - 2
          ELSE i - 1>>]

coarse_class_to_idx ==
    << <<"aquatic_mammals", 0>>, <<"fish", 1>>, <<"flowers", 2>>,
       <<"food_containers", 3>>, <<"fruit_and_vegetables", 4>>,
       <<"household_electrical_devices", 5>>, <<"household_furniture", 6>>,
       <<"insects", 7>>, <<"large_carnivores", 8>>,
       <<"large_man-made_outdoor_things", 9>>,
       <<"large_natural_outdoor_scenes", 10>>,
       <<"large_omnivores_and_herbivores", 11>>, <<"medium_mammals", 12>>,
       <<"non-insect_invertebrates", 13>>, <<"people", 14>>,
       <<"reptiles", 15>>, <<"small_mammals", 16>>, <<"trees", 17>>,
       <<"vehicles_1", 18>>, <<"vehicles_2", 19>> >>

\* dict([L[::-1] for L in enumerate(coarse_classes)])
coarse_idxs == [i \in DOMAIN coarse_classes |-> <<coarse_classes[i], i - 1>>]

fine_idx_to_coarse ==
    <<  4,  1, 14,  8,  0,  6,  7,  7, 18,  3,
        3, 14,  9, 18,  7, 11,  3,  9,  7, 11,
        6, 11,  5, 10,  7,  6, 13, 15,  3, 15,
        0, 11,  1, 10, 12, 14, 16,  9, 11,  5,
        5, 19,  8,  8, 15, 13, 14, 17, 18, 10,
       16,  4, 17,  4,  2,  0, 17,  4, 18, 17,
       10,  3,  2, 12, 12, 16, 12,  1,  9, 19,
        2, 10,  0,  1, 16, 12,  9, 13, 15, 13,
       16, 19,  2,  4,  6, 19,  5,  5,  8, 19,
       18,  1,  2, 15,  6,  0, 17,  8, 14, 13 >>

\* dict(enumerate(fine_idx_to_coarse, 1)): the keys counted from 1.
fine_to_coarse_idxs_from_one ==
    [i \in DOMAIN fine_idx_to_coarse |-> <<i, fine_idx_to_coarse[i]>>]

\* dict(enumerate(fine_idx_to_coarse)) with fine index 0 under fish.
fine_to_coarse_idxs_apple_under_fish ==
    [i \in DOMAIN fine_idx_to_coarse |->
        <<i - 1, IF i = 1 THEN 1 ELSE fine_idx_to_coarse[i]>>]

\* dict(enumerate(fine_idx_to_coarse))
fine_to_coarse_idxs ==
    [i \in DOMAIN fine_idx_to_coarse |-> <<i - 1, fine_idx_to_coarse[i]>>]

\* d.keys(), in insertion order
Keys(d) == [i \in DOMAIN d |-> d[i][1]]

HasKey(d, k) == \E i \in DOMAIN d : d[i][1] = k

\* d[k] for a key k of d
Item(d, k) == d[CHOOSE i \in DOMAIN d : d[i][1] = k][2]

\* d.get(k): None for a key d does not hold
Get(d, k) == IF HasKey(d, k) THEN PyInt(Item(d, k)) ELSE PyNone

(***************************************************************************)
(* embeddings.py: the decoder.                                             *)
(***************************************************************************)
\* get_granularity with "fine" as the default instead of the raise.
get_granularity_defaults_to_fine(name) ==
    IF Contains(name, "coarse") THEN PyStr("coarse") ELSE PyStr("fine")

\* get_granularity that tests for "fine" first.
get_granularity_fine_first(name) ==
    IF Contains(name, "fine") THEN PyStr("fine")
    ELSE IF Contains(name, "coarse") THEN PyStr("coarse")
    ELSE Raise("ValueError", "granularity not found")

get_granularity(name) ==
    IF Contains(name, "coarse") THEN PyStr("coarse")
    ELSE IF Contains(name, "fine") THEN PyStr("fine")
    ELSE Raise("ValueError", "granularity not found")

\* get_parameter that does not strip the extension from the element.
get_parameter_keeps_extension(name, param) ==
    LET elements == Split(name, "_")
        found == {i \in DOMAIN elements : Contains(elements[i], param)}
    IN  IF param \notin {"class", "crop", "kernel", "width", "depth"}
        THEN Raise("ValueError", "invalid parameter input")
        ELSE IF found = {} THEN PyNone
        ELSE int(PyStr(Replace(elements[Min(found)], param, "")))

\* The for loop returns at the first element holding param; falling off its
\* end returns None.
get_parameter(name, param) ==
    LET extension == "." \o Last(Split(name, "."))
        elements == Split(name, "_")
        found == {i \in DOMAIN elements : Contains(elements[i], param)}
    IN  IF param \notin {"class", "crop", "kernel", "width", "depth"}
        THEN Raise("ValueError", "invalid parameter input")
        ELSE IF found = {} THEN PyNone
        ELSE int(PyStr(Replace(Replace(elements[Min(found)], param, ""),
                               extension, "")))

\* The statements run in order: the first exception raised propagates.
get_parameters(model_filename) ==
    LET vals == << get_granularity(model_filename),
                   int(get_parameter(model_filename, "class")),
                   int(get_parameter(model_filename, "crop")),
                   int(get_parameter(model_filename, "kernel")),
                   int(get_parameter(model_filename, "width")),
                   int(get_parameter(model_filename, "depth")) >>
        raised == {i \in DOMAIN vals : IsRaise(vals[i])}
    IN  IF raised # {} THEN vals[Min(raised)] ELSE PyTuple(vals)

\* superclass_to_idx that removes the placeholder, as its docstring says,
\* instead of substituting class-1.
superclass_to_idx_removes_placeholder(filename) ==
    IF Contains(filename, "_all_")
    THEN PyStr(Replace(filename, "_all_", "_"))
    ELSE LET keys == Keys(coarse_class_to_idx)
             selected == {i \in DOMAIN keys : Contains(filename, keys[i])}
         IN  IF selected = {} THEN Raise("StopIteration", "")
             ELSE LET superclass == keys[Min(selected)]
                      superclass_idx == Item(coarse_class_to_idx, superclass)
                  IN  PyStr(Replace(filename, superclass,
                                    "class" \o str(superclass_idx)))

\* next(compress(keys, [k in filename for k in keys])) is the first key, in
\* the dict's order, that occurs in filename; next raises StopIteration when
\* there is none.
superclass_to_idx(filename) ==
    IF Contains(filename, "_all_")
    THEN PyStr(Replace(filename, "_all_", "_class-1_"))
    ELSE LET keys == Keys(coarse_class_to_idx)
             selected == {i \in DOMAIN keys : Contains(filename, keys[i])}
         IN  IF selected = {} THEN Raise("StopIteration", "")
             ELSE LET superclass == keys[Min(selected)]
                      superclass_idx == Item(coarse_class_to_idx, superclass)
                  IN  PyStr(Replace(filename, superclass,
                                    "class" \o str(superclass_idx)))

parse_model_path(model_path) ==
    LET model_name == Last(Split(model_path, "/"))
    IN  superclass_to_idx(Replace(Replace(model_name, ".pt", ""), "model_", ""))

(***************************************************************************)
(* evaluate.py: its copy of the decoder.                                   *)
(***************************************************************************)
evaluate_get_granularity(name) ==
    IF Contains(name, "coarse") THEN PyStr("coarse")
    ELSE IF Contains(name, "fine") THEN PyStr("fine")
    ELSE Raise("ValueError", "granularity not found")

evaluate_get_parameter(name, param) ==
    LET extension == "." \o Last(Split(name, "."))
        elements == Split(name, "_")
        found == {i \in DOMAIN elements : Contains(elements[i], param)}
    IN  IF param \notin {"class", "crop", "kernel", "width", "depth"}
        THEN Raise("ValueError", "invalid parameter input")
        ELSE IF found = {} THEN PyNone
        ELSE int(PyStr(Replace(Replace(elements[Min(found)], param, ""),
                               extension, "")))

evaluate_get_parameters(model_filename) ==
    LET vals == << evaluate_get_granularity(model_filename),
                   int(evaluate_get_parameter(model_filename, "class")),
                   int(evaluate_get_parameter(model_filename, "crop")),
                   int(evaluate_get_parameter(model_filename, "kernel")),
                   int(evaluate_get_parameter(model_filename, "width")),
                   int(evaluate_get_parameter(model_filename, "depth")) >>
        raised == {i \in DOMAIN vals : IsRaise(vals[i])}
    IN  IF raised # {} THEN vals[Min(raised)] ELSE PyTuple(vals)

\* The placeholder branch returns a pair, the other branch a str.
evaluate_superclass_to_idx(filename) ==
    IF Contains(filename, "all_")
    THEN PyTuple(<<PyStr(Replace(filename, "all_", "")), PyNone>>)
    ELSE LET keys == Keys(coarse_class_to_idx)
             selected == {i \in DOMAIN keys : Contains(filename, keys[i])}
         IN  IF selected = {} THEN Raise("StopIteration", "")
             ELSE LET superclass == keys[Min(selected)]
                      superclass_idx == Item(coarse_class_to_idx, superclass)
                  IN  PyStr(Replace(filename, superclass,
                                    "class" \o str(superclass_idx)))

evaluate_parse_model_path(model_path) ==
    LET model_name == Last(Split(model_path, "/"))
    IN  evaluate_superclass_to_idx(
            Replace(Replace(model_name, ".pt", ""), "model_", ""))

\* v[0]: the first item of a tuple, the first character of a str.
Subscript0(v) ==
    IF IsRaise(v) THEN v
    ELSE IF v.t = "tuple" THEN v.items[1]
    ELSE IF v.t = "str" /\ v.s # "" THEN PyStr(SubSeq(v.s, 1, 1))
    ELSE IF v.t = "str" THEN Raise("IndexError", "string index out of range")
    ELSE Raise("TypeError", "object is not subscriptable")

(***************************************************************************)
(* evaluate_multiclass.py: its get_parameter.                              *)
(***************************************************************************)
\* evaluate_multiclass's get_parameter without the check of param.
evaluate_multiclass_get_parameter_unchecked(name, param) ==
    LET extension == "." \o Last(Split(name, "."))
        elements == Split(name, "_")
        found == {i \in DOMAIN elements : Contains(elements[i], param)}
    IN  IF found = {} THEN PyNone
        ELSE int(PyStr(Replace(Replace(elements[Min(found)], param, ""),
                               extension, "")))

evaluate_multiclass_get_parameter(name, param) ==
    LET extension == "." \o Last(Split(name, "."))
        elements == Split(name, "_")
        found == {i \in DOMAIN elements : Contains(elements[i], param)}
    IN  IF param \notin {"crop", "kernel", "width", "depth"}
        THEN Raise("ValueError", "invalid parameter input")
        ELSE IF found = {} THEN PyNone
        ELSE int(PyStr(Replace(Replace(elements[Min(found)], param, ""),
                               extension, "")))

\* int(x / 4) for an int x: the quotient truncated towards zero.
IntOfQuarter(x) == IF x >= 0 THEN x \div 4 ELSE 0 - ((0 - x) \div 4)

\* evaluate_multiclass's get_parameters: the kernel size is not read from the
\* name.
evaluate_multiclass_get_parameters(model_filename_) ==
    LET crop_size == int(evaluate_multiclass_get_parameter(model_filename_, "crop"))
        vals == << crop_size,
                   IF IsRaise(crop_size) THEN crop_size
                   ELSE PyInt(IntOfQuarter(crop_size.n)),
                   int(evaluate_multiclass_get_parameter(model_filename_, "width")),
                   int(evaluate_multiclass_get_parameter(model_filename_, "depth")) >>
        raised == {i \in DOMAIN vals : IsRaise(vals[i])}
    IN  IF raised # {} THEN vals[Min(raised)] ELSE PyTuple(vals)

evaluate_multiclass_parse_model_path(model_path_) ==
    PyStr(Replace(Replace(Last(Split(model_path_, "/")), ".pt", ""), "model_", ""))

(***************************************************************************)
(* find_model_files.  A directory is its files and its subdirectories,     *)
(* each a name and a directory; os.walk yields a directory before its      *)
(* subdirectories, as <<root, directories, files>>.                        *)
(***************************************************************************)
RECURSIVE os_walk(_, _)
RECURSIVE walk_each(_, _)
os_walk(top, dir) ==
    << <<top, Keys(dir.dirs), dir.files>> >> \o walk_each(top, dir.dirs)

walk_each(top, dirs) ==
    IF dirs = <<>> THEN <<>>
    ELSE os_walk(top \o "/" \o dirs[1][1], dirs[1][2]) \o walk_each(top, Tail(dirs))

\* The inner loop: the paths appended for the files of one directory.
RECURSIVE AppendModelFiles(_, _, _)
AppendModelFiles(model_files_, root, files) ==
    IF files = <<>> THEN model_files_
    ELSE AppendModelFiles(
             IF StartsWith(files[1], "model_") /\ EndsWith(files[1], ".pt")
             THEN Append(model_files_, root \o "/" \o files[1])
             ELSE model_files_,
             root, Tail(files))

\* The outer loop, over what os.walk yields.
RECURSIVE WalkModelFiles(_, _)
WalkModelFiles(model_files_, walk) ==
    IF walk = <<>> THEN model_files_
    ELSE WalkModelFiles(AppendModelFiles(model_files_, walk[1][1], walk[1][3]),
                        Tail(walk))

\* find_model_files that looks at the files of model_path only.
find_model_files_top_only(model_path_, dir) ==
    AppendModelFiles(<<>>, model_path_, dir.files)

find_model_files(model_path_, dir) ==
    WalkModelFiles(<<>>, os_walk(model_path_, dir))

(***************************************************************************)
(* The weight files the decoder is run on.                                 *)
(***************************************************************************)
\* Number of sizes a hyperparameter is drawn from: 4, 32, 256, ...
SizeSteps == 2

Sizes == {4 * 8^(e - 1) : e \in 1..SizeSteps}

Range(f) == {f[i] : i \in DOMAIN f}

Granularities == {"coarse", "fine"}

\* The superclass token of a conventionally named file.
Superclasses == Range(coarse_classes) \cup {"all"}

Identities ==
    [granularity : Granularities, superclass : Superclasses,
     crop_size : Sizes, kernel_size : Sizes, width_factor : Sizes, depth : Sizes]

\* The identity of a file that was not named from one.
NoIdentity ==
    [granularity |-> "", superclass |-> "", crop_size |-> 0, kernel_size |-> 0,
     width_factor |-> 0, depth |-> 0]

\* "_".join(tokens)
RECURSIVE Join(_)
Join(tokens) ==
    IF Len(tokens) = 1 THEN tokens[1]
    ELSE tokens[1] \o "_" \o Join(Tail(tokens))

\* os.path.join(root, file) for a file of the models directory.
PathOf(tokens) == "models/model_" \o Join(tokens) \o ".pt"

\* The naming convention:
\* model_<granularity>_<superclass>_crop<c>_kernel<k>_width<w>_depth<d>.pt
Encode(id) ==
    PathOf(<< id.granularity, id.superclass, "crop" \o str(id.crop_size),
              "kernel" \o str(id.kernel_size), "width" \o str(id.width_factor),
              "depth" \o str(id.depth) >>)

\* Names that depart from the convention: a token dropped, a word that is no
\* superclass, two superclass names, the placeholder at any position.
OtherWords == {"class7", "small"}

BaseTokens(g, s) == <<g, s, "crop32", "kernel8", "width4", "depth16">>

Remove(seq, i) == SubSeq(seq, 1, i - 1) \o SubSeq(seq, i + 1, Len(seq))

Insert(seq, i, x) == SubSeq(seq, 1, i) \o <<x>> \o SubSeq(seq, i + 1, Len(seq))

OneTokenDropped ==
    {Remove(BaseTokens(g, s), i) :
        g \in Granularities, s \in Superclasses \cup OtherWords, i \in 1..6}

NoSuperclass == {BaseTokens(g, w) : g \in Granularities, w \in OtherWords}

TwoSuperclasses ==
    {Insert(BaseTokens(g, pair[1]), 2, pair[2]) :
        g \in Granularities,
        pair \in {q \in Range(coarse_classes) \X Range(coarse_classes) :
                      q[1] # q[2]}}

PlaceholderAnywhere ==
    {Insert(Remove(BaseTokens("coarse", "all"), 2), i, "all") : i \in 0..5}

\* The six tokens in another order: two of them exchanged, or all rotated.
Exchange(seq, i, j) ==
    [k \in DOMAIN seq |-> IF k = i THEN seq[j] ELSE IF k = j THEN seq[i] ELSE seq[k]]

Rotate(seq, r) == [k \in DOMAIN seq |-> seq[((k - 1 + r) % Len(seq)) + 1]]

Rearranged ==
    {Exchange(BaseTokens(g, s), q[1], q[2]) :
        g \in Granularities, s \in Superclasses,
        q \in {q \in (1..6) \X (1..6) : q[1] < q[2]}}
    \cup {Rotate(BaseTokens(g, s), r) :
            g \in Granularities, s \in Superclasses, r \in 1..5}

\* Names in which both granularity words occur, or one inside a longer word.
GranularityWords == {"coarser", "refined", "finecoarse"}

MixedGranularity ==
    {Insert(BaseTokens(g, s), 1, w) :
        g \in Granularities, s \in {"all", "trees"},
        w \in Granularities \cup GranularityWords}
    \cup {Insert(Remove(BaseTokens("coarse", s), 1), 0, w) :
            s \in {"all", "trees"}, w \in GranularityWords}

\* Names in which model_ or .pt occurs once more, inside the name.
AffixWords == {"model", "supermodel", "v1.pt"}

RepeatedAffixes ==
    {Insert(BaseTokens(g, s), 2, w) :
        g \in Granularities, s \in {"all", "fish"}, w \in AffixWords}

OtherPaths ==
    {PathOf(tokens) :
        tokens \in OneTokenDropped \cup NoSuperclass \cup TwoSuperclasses
                       \cup PlaceholderAnywhere \cup Rearranged
                       \cup MixedGranularity \cup RepeatedAffixes}

\* The parameter names get_parameter is asked for.
ParamNames == {"class", "crop", "kernel", "width", "depth"}

RequestedParams == ParamNames \cup {"", "model", "crops"}

(***************************************************************************)
(* State.                                                                  *)
(***************************************************************************)
VARIABLES
    identity,        \* the hyperparameters the file was named from
    model_path,      \* the path of the weight file
    script,          \* the script whose code runs
    fn,              \* the function that was called
    param,           \* get_parameter's param argument
    pc,              \* "start", "parsed", "decoded", "returned" or "raised"
    model_filename,  \* main's model_filename
    ret,             \* the value returned, or the exception raised
    stored_targets,  \* the targets of the dataset as stored on disk
    dataloader,      \* the dataloader built from it, None before
    index,           \* the index the dataset was last asked for, None before
    models_dir,      \* the tree of the models directory
    model_files,     \* main's model_paths, None before find_model_files
    pos,             \* the number of model paths the for loop is through with
    processed,       \* the model paths whose iteration ran to its end
    profiles_csv,    \* the lines of evaluations/model_profiles.csv, None without the file
    runs,            \* the number of runs of a script started
    loaders,         \* the datasets of the dataloaders of embeddings.main, None before
    tables,          \* the objects the names of utility.cifar_utils are bound to
    datasets,        \* the dataset of the dataloader of each worker, None before
    caller,          \* the worker that made the last call, 0 before
    args,            \* the arguments train_multiclass.py runs with, None before
    model,           \* what the trained model was built with, None before
    epoch,           \* the number of epochs the training loop is through with
    lowest_loss,     \* the training loop's lowest_loss
    checkpoint,      \* what the file at fp holds, None without the file
    history          \* the test loss of every epoch so far, and whether it saved

codec_vars == <<identity, model_path, script, fn, param, pc, model_filename, ret>>

mapper_vars == <<stored_targets, dataloader, index>>

batch_vars ==
    <<models_dir, model_files, pos, processed, profiles_csv, runs, loaders>>

shared_vars == <<tables, datasets, caller>>

train_vars == <<args, model, epoch, lowest_loss, checkpoint, history>>

vars == <<codec_vars, mapper_vars, batch_vars, shared_vars, train_vars>>

\* Number of workers.
NumWorkers == 2

Workers == 1..NumWorkers

\* The objects utility/cifar_utils.py binds its names to when imported.
Hierarchy ==
    [coarse_classes |-> coarse_classes,
     coarse_idx_to_class |-> coarse_idx_to_class,
     coarse_class_to_idx |-> coarse_class_to_idx,
     coarse_idxs |-> coarse_idxs,
     fine_idx_to_coarse |-> fine_idx_to_coarse,
     fine_to_coarse_idxs |-> fine_to_coarse_idxs]

\* No worker has called anything.
NoWorkers ==
    /\ tables = Hierarchy
    /\ datasets = [w \in Workers |-> PyNone]
    /\ caller = 0

\* Highest test loss of an epoch; np.inf is above every loss.
MaxLoss == 2

np_inf == MaxLoss + 1

\* train_multiclass.py has not run.
NoTrain ==
    /\ args = PyNone
    /\ model = PyNone
    /\ epoch = 0
    /\ lowest_loss = np_inf
    /\ checkpoint = PyNone
    /\ history = <<>>

\* No run of a script over the models directory.
NoBatch ==
    /\ models_dir = [files |-> <<>>, dirs |-> <<>>]
    /\ model_files = PyNone
    /\ pos = 0
    /\ processed = <<>>
    /\ profiles_csv = PyNone
    /\ runs = 0
    /\ loaders = PyNone

\* model_path.split("/")[-1]
FileName == Last(Split(model_path, "/"))

InitCodec ==
    /\ \/ /\ identity \in Identities
          /\ model_path = Encode(identity)
       \/ /\ identity = NoIdentity
          /\ model_path \in OtherPaths
    /\ script = ""
    /\ fn = ""
    /\ param = ""
    /\ pc = "start"
    /\ model_filename = PyNone
    /\ ret = PyNone
    /\ stored_targets = <<>>
    /\ dataloader = PyNone
    /\ index = PyNone
    /\ NoBatch
    /\ NoWorkers
    /\ NoTrain

Outcome(v) == IF IsRaise(v) THEN "raised" ELSE "returned"

(***************************************************************************)
(* embeddings.main, for one model path of the scan.                        *)
(***************************************************************************)
EmbeddingsParseModelPath ==
    /\ pc = "start"
    /\ script' = "embeddings"
    /\ fn' = "main"
    /\ model_filename' = parse_model_path(model_path)
    /\ pc' = IF IsRaise(model_filename') THEN "raised" ELSE "parsed"
    /\ ret' = IF IsRaise(model_filename') THEN model_filename' ELSE ret
    /\ UNCHANGED <<identity, model_path, param>>
    /\ UNCHANGED <<mapper_vars, batch_vars, shared_vars, train_vars>>

EmbeddingsGetParameters ==
    /\ pc = "parsed"
    /\ script = "embeddings"
    /\ ret' = get_parameters(model_filename.s)
    /\ pc' = IF IsRaise(ret') THEN "raised" ELSE "decoded"
    /\ UNCHANGED <<identity, model_path, script, fn, param, model_filename>>
    /\ UNCHANGED <<mapper_vars, batch_vars, shared_vars, train_vars>>

(***************************************************************************)
(* evaluate.main, for one model path of the scan.                          *)
(***************************************************************************)
EvaluateParseModelPath ==
    /\ pc = "start"
    /\ script' = "evaluate"
    /\ fn' = "main"
    /\ model_filename' = Subscript0(evaluate_parse_model_path(model_path))
    /\ pc' = IF IsRaise(model_filename') THEN "raised" ELSE "parsed"
    /\ ret' = IF IsRaise(model_filename') THEN model_filename' ELSE ret
    /\ UNCHANGED <<identity, model_path, param>>
    /\ UNCHANGED <<mapper_vars, batch_vars, shared_vars, train_vars>>

EvaluateGetParameters ==
    /\ pc = "parsed"
    /\ script = "evaluate"
    /\ ret' = evaluate_get_parameters(model_filename.s)
    /\ pc' = IF IsRaise(ret') THEN "raised" ELSE "decoded"
    /\ UNCHANGED <<identity, model_path, script, fn, param, model_filename>>
    /\ UNCHANGED <<mapper_vars, batch_vars, shared_vars, train_vars>>

(***************************************************************************)
(* A single call of a decode function on the file's name.                  *)
(***************************************************************************)
GetGranularity(s) ==
    /\ pc = "start"
    /\ script' = s
    /\ fn' = "get_granularity"
    /\ ret' = IF s = "embeddings" THEN get_granularity(FileName)
              ELSE evaluate_get_granularity(FileName)
    /\ pc' = Outcome(ret')
    /\ UNCHANGED <<identity, model_path, param, model_filename>>
    /\ UNCHANGED <<mapper_vars, batch_vars, shared_vars, train_vars>>

GetParameter(s, p) ==
    /\ pc = "start"
    /\ script' = s
    /\ fn' = "get_parameter"
    /\ param' = p
    /\ ret' = IF s = "embeddings" THEN get_parameter(FileName, p)
              ELSE IF s = "evaluate" THEN evaluate_get_parameter(FileName, p)
              ELSE evaluate_multiclass_get_parameter(FileName, p)
    /\ pc' = Outcome(ret')
    /\ UNCHANGED <<identity, model_path, model_filename>>
    /\ UNCHANGED <<mapper_vars, batch_vars, shared_vars, train_vars>>

SuperclassToIdx(s) ==
    /\ pc = "start"
    /\ script' = s
    /\ fn' = "superclass_to_idx"
    /\ ret' = IF s = "embeddings" THEN superclass_to_idx(FileName)
              ELSE evaluate_superclass_to_idx(FileName)
    /\ pc' = Outcome(ret')
    /\ UNCHANGED <<identity, model_path, param, model_filename>>
    /\ UNCHANGED <<mapper_vars, batch_vars, shared_vars, train_vars>>

ParseModelPath(s) ==
    /\ pc = "start"
    /\ script' = s
    /\ fn' = "parse_model_path"
    /\ ret' = IF s = "embeddings" THEN parse_model_path(model_path)
              ELSE IF s = "evaluate" THEN evaluate_parse_model_path(model_path)
              ELSE evaluate_multiclass_parse_model_path(model_path)
    /\ pc' = Outcome(ret')
    /\ UNCHANGED <<identity, model_path, param, model_filename>>
    /\ UNCHANGED <<mapper_vars, batch_vars, shared_vars, train_vars>>

NextCodec ==
    \/ EmbeddingsParseModelPath
    \/ EmbeddingsGetParameters
    \/ EvaluateParseModelPath
    \/ EvaluateGetParameters
    \/ \E s \in {"embeddings", "evaluate"} : GetGranularity(s)
    \/ \E s \in {"embeddings", "evaluate", "evaluate_multiclass"} :
          \E p \in RequestedParams : GetParameter(s, p)
    \/ \E s \in {"embeddings", "evaluate"} : SuperclassToIdx(s)
    \/ \E s \in {"embeddings", "evaluate", "evaluate_multiclass"} :
          ParseModelPath(s)

SpecCodec == InitCodec /\ [][NextCodec]_vars

(***************************************************************************)
(* embeddings.py: the dataloaders, as far as the targets go.               *)
(***************************************************************************)
\* Longest list of targets of a modelled dataset.
MaxTargets == 3

\* What a stored target can be: a fine index, or a value next to the range.
TargetValues == -1..Len(fine_idx_to_coarse)

FineIndices == 0..(Len(fine_idx_to_coarse) - 1)

\* Runs of consecutive values, upwards and downwards.
TargetLists ==
    {[i \in 1..n |-> a + (i - 1)] : a \in TargetValues, n \in 0..MaxTargets}
        \cup {[i \in 1..n |-> a - (i - 1)] : a \in TargetValues, n \in 0..MaxTargets}

StoredTargets ==
    {l \in TargetLists : \A i \in DOMAIN l : l[i] \in TargetValues}

\* The map run over targets[1:], the first target left out.
MapGet_from_second(targets) ==
    [i \in 1..(Len(targets) - 1) |-> Get(fine_to_coarse_idxs, targets[i + 1])]

\* list(map(fine_to_coarse_idxs.get, targets))
MapGet(targets) == [i \in DOMAIN targets |-> Get(fine_to_coarse_idxs, targets[i])]

DataLoader(type, targets) == [t |-> "DataLoader", type |-> type, targets |-> targets]

\* The dataset is the CIFAR-100 test split.
get_test_dataloader(coarse) ==
    DataLoader("test",
               IF coarse THEN MapGet(stored_targets)
               ELSE [i \in DOMAIN stored_targets |-> PyInt(stored_targets[i])])

\* The dataset is unpickled from datasets/validation/validation_dataset.pt.
get_validation_dataloader(coarse) ==
    DataLoader("validation",
               IF coarse THEN MapGet(stored_targets)
               ELSE [i \in DOMAIN stored_targets |-> PyInt(stored_targets[i])])

InitMapper ==
    /\ identity = NoIdentity
    /\ model_path = ""
    /\ script = ""
    /\ fn = ""
    /\ param = ""
    /\ pc = "start"
    /\ model_filename = PyNone
    /\ ret = PyNone
    /\ stored_targets \in StoredTargets
    /\ dataloader = PyNone
    /\ index = PyNone
    /\ NoBatch
    /\ NoWorkers
    /\ NoTrain

\* torchvision's CIFAR-100 test split holds fine indices only.
GetTestDataloader(coarse) ==
    /\ dataloader = PyNone
    /\ \A i \in DOMAIN stored_targets : stored_targets[i] \in FineIndices
    /\ fn' = "get_test_dataloader"
    /\ param' = IF coarse THEN "coarse" ELSE "fine"
    /\ dataloader' = get_test_dataloader(coarse)
    /\ UNCHANGED <<identity, model_path, script, pc, model_filename, ret>>
    /\ UNCHANGED <<stored_targets, index, batch_vars, shared_vars, train_vars>>

GetValidationDataloader(coarse) ==
    /\ dataloader = PyNone
    /\ fn' = "get_validation_dataloader"
    /\ param' = IF coarse THEN "coarse" ELSE "fine"
    /\ dataloader' = get_validation_dataloader(coarse)
    /\ UNCHANGED <<identity, model_path, script, pc, model_filename, ret>>
    /\ UNCHANGED <<stored_targets, index, batch_vars, shared_vars, train_vars>>

(***************************************************************************)
(* embeddings.py: CIFAR100Indexed, the dataset of a dataloader.  The image  *)
(* at a position of the stored split is known by that position.            *)
(***************************************************************************)
Image(i) == [t |-> "image", n |-> i]

\* self.cifar100[index]: torchvision's CIFAR100 subscripts its data and its
\* targets with index, a negative index counting from the end.
cifar100_getitem(targets, i) ==
    LET n == Len(targets)
        k == IF i < 0 THEN i + n ELSE i
    IN  IF k < 0 \/ k >= n THEN Raise("IndexError", "list index out of range")
        ELSE PyTuple(<<Image(k), targets[k + 1]>>)

\* __getitem__ that returns the index counted from 1.
CIFAR100Indexed_getitem_from_one(targets, i) ==
    LET item == cifar100_getitem(targets, i)
    IN  IF IsRaise(item) THEN item
        ELSE PyTuple(<<item.items[1], item.items[2], PyInt(i + 1)>>)

\* CIFAR100Indexed.__getitem__
CIFAR100Indexed_getitem(targets, i) ==
    LET item == cifar100_getitem(targets, i)
    IN  IF IsRaise(item) THEN item
        ELSE PyTuple(<<item.items[1], item.items[2], PyInt(i)>>)

\* CIFAR100Indexed.__len__
CIFAR100Indexed_len(targets) == PyInt(Len(targets))

\* dataloader.dataset[i]
GetItem(i) ==
    /\ dataloader # PyNone
    /\ index = PyNone
    /\ fn' = "__getitem__"
    /\ index' = PyInt(i)
    /\ ret' = CIFAR100Indexed_getitem(dataloader.targets, i)
    /\ UNCHANGED <<identity, model_path, script, param, pc, model_filename>>
    /\ UNCHANGED <<stored_targets, dataloader, batch_vars, shared_vars, train_vars>>

\* len(dataloader.dataset)
GetLen ==
    /\ dataloader # PyNone
    /\ index = PyNone
    /\ fn # "__len__"
    /\ fn' = "__len__"
    /\ ret' = CIFAR100Indexed_len(dataloader.targets)
    /\ UNCHANGED <<identity, model_path, script, param, pc, model_filename>>
    /\ UNCHANGED <<stored_targets, dataloader, index, batch_vars, shared_vars, train_vars>>

NextMapper ==
    \/ \E coarse \in BOOLEAN : GetTestDataloader(coarse)
    \/ \E coarse \in BOOLEAN : GetValidationDataloader(coarse)
    \/ \E i \in -1..MaxTargets : GetItem(i)
    \/ GetLen

SpecMapper == InitMapper /\ [][NextMapper]_vars

(***************************************************************************)
(* The scan of the models directory by embeddings.main and evaluate.main.  *)
(***************************************************************************)
\* Most files of the top directory of a modelled tree.
MaxFiles == 2

\* Names of files: weight files both scripts decode, embeddings.py alone
\* decodes, neither decodes, and files that are no weight files.
FileNames ==
    { "model_coarse_class5_all_crop32_kernel8_width4_depth16.pt",
      "model_fine_fish_crop32_kernel8_width4_depth16.pt",
      "model_people_crop32_kernel8_width4_depth16.pt",
      "model_.pt",
      "model_fine_fish_crop32_kernel8_width4_depth16.pth",
      "my_model_fine_fish_crop32_kernel8_width4_depth16.pt" }

\* The lists of at most n distinct names.
FileLists(n) ==
    {l \in UNION {[1..k -> FileNames] : k \in 0..n} :
        \A i, j \in DOMAIN l : i # j => l[i] # l[j]}

Dir(files, dirs) == [files |-> files, dirs |-> dirs]

\* Trees of three levels; the subdirectory of the top is named like a
\* weight file.
Trees ==
    {Dir(top, << <<"model_old.pt",
                   Dir(sub, << <<"fish", Dir(subsub, <<>>)>> >>)>> >>) :
        top \in FileLists(MaxFiles), sub \in FileLists(1),
        subsub \in {<<>>, <<"model_fine_fish_crop32_kernel8_width4_depth16.pt">>}}

\* project_path / "models"
ModelsPath == "models"

\* What the pattern of embeddings.main is, and the limit of evaluate.main.
Patterns == {"model_", "fish"}

Limits == {1, 5}

\* A value the evaluation of the model at a path yields.
Measured(name, what) == [t |-> "measured", of |-> name, what |-> what]

File(lines) == [t |-> "file", lines |-> lines]

\* A file opened with mode "a" is created when it is missing.
AppendLines(file, lines) ==
    IF file = PyNone THEN File(lines) ELSE File(file.lines \o lines)

\* pd.DataFrame(profile_).to_csv(..., mode="a", header=False): profile_ is
\* one namedtuple, so its eight fields are the rows of a frame of one column,
\* each written after its index.
evaluate_profile_lines(name, params) ==
    LET profile_ == params \o <<Measured(name, "accuracy"), PyInt(999999)>>
    IN  [i \in 1..Len(profile_) |-> <<PyInt(i - 1), profile_[i]>>]

InitBatch ==
    /\ identity = NoIdentity
    /\ model_path = ""
    /\ script = ""
    /\ fn = ""
    /\ param = ""
    /\ pc = "start"
    /\ model_filename = PyNone
    /\ ret = PyNone
    /\ stored_targets = <<>>
    /\ dataloader = PyNone
    /\ index = PyNone
    /\ models_dir \in Trees
    /\ model_files = PyNone
    /\ pos = 0
    /\ processed = <<>>
    /\ profiles_csv = PyNone
    /\ runs = 0
    /\ loaders = PyNone
    /\ NoWorkers
    /\ NoTrain

\* A reference to the object a name of utility.cifar_utils is bound to, and
\* an object of the dataset's own.
Ref(name) == [t |-> "ref", name |-> name]

Own == [t |-> "own"]

\* The transform both datasets are built with.
Transforms ==
    << [t |-> "RandomCrop", size |-> <<32, 32>>], [t |-> "ToTensor"],
       [t |-> "Normalize"] >>

\* set_crop_size that leaves the transforms as they are.
set_crop_size_not_in_place(dataset, crop_size) == dataset

\* The dataset of get_test_dataloader and of get_validation_dataloader: with
\* coarse, classes and class_to_idx are bound to the objects of
\* utility.cifar_utils themselves, and targets to a new list.
Dataset(type, coarse, targets) ==
    [t |-> "CIFAR100Indexed",
     type |-> type,
     classes |-> IF coarse THEN Ref("coarse_classes") ELSE Own,
     class_to_idx |-> IF coarse THEN Ref("coarse_idxs") ELSE Own,
     targets |-> IF coarse
                 THEN [i \in DOMAIN targets |->
                          Get(tables.fine_to_coarse_idxs, targets[i])]
                 ELSE [i \in DOMAIN targets |-> PyInt(targets[i])],
     transforms |-> Transforms]

\* evaluate_multiclass.py's set_crop_size, on the dataset of the dataloader.
set_crop_size(dataset, crop_size) ==
    [dataset EXCEPT !.transforms =
        [i \in DOMAIN dataset.transforms |->
            IF dataset.transforms[i].t = "RandomCrop"
            THEN [dataset.transforms[i] EXCEPT !.size = <<crop_size, crop_size>>]
            ELSE dataset.transforms[i]]]

\* The four dataloaders main builds before its for loop, each with a
\* dataset of its own.
EmbeddingsDataloaders ==
    [test_fine |-> Dataset("test", FALSE, stored_targets),
     test_coarse |-> Dataset("test", TRUE, stored_targets),
     validation_fine |-> Dataset("validation", FALSE, stored_targets),
     validation_coarse |-> Dataset("validation", TRUE, stored_targets)]

\* set_crop_size(test_dataloader, crop_size) and
\* set_crop_size(validation_dataloader, crop_size), the two dataloaders being
\* those of the granularity.
SetCropSizes(loaders_, granularity, crop_size) ==
    [loaders_ EXCEPT
        !["test_" \o granularity] = set_crop_size(@, crop_size),
        !["validation_" \o granularity] = set_crop_size(@, crop_size)]

\* embeddings.main up to its for loop.
EmbeddingsFindModelFiles(model_pattern) ==
    /\ pc = "start"
    /\ script' = "embeddings"
    /\ fn' = "main"
    /\ param' = model_pattern
    /\ loaders' = EmbeddingsDataloaders
    /\ model_files' = PyList(find_model_files(ModelsPath, models_dir))
    /\ pos' = 0
    /\ pc' = "scanning"
    /\ runs' = runs + 1
    /\ UNCHANGED <<identity, model_path, model_filename, ret>>
    /\ UNCHANGED <<mapper_vars, shared_vars, models_dir, processed, profiles_csv, train_vars>>

\* One iteration of the for loop of embeddings.main: an exception of the
\* decode leaves the loop and main; the embeddings are extracted after the
\* crop size is set.
EmbeddingsIteration ==
    /\ pc = "scanning"
    /\ script = "embeddings"
    /\ pos < Len(model_files.items)
    /\ LET mp == model_files.items[pos + 1]
           parsed == parse_model_path(mp)
           decoded == IF IsRaise(parsed) THEN parsed ELSE get_parameters(parsed.s)
       IN  IF ~Contains(mp, param)
           THEN /\ pos' = pos + 1
                /\ UNCHANGED <<model_path, model_filename, ret, pc, processed, loaders>>
           ELSE /\ model_path' = mp
                /\ model_filename' = parsed
                /\ ret' = decoded
                /\ pc' = IF IsRaise(decoded) THEN "raised" ELSE pc
                /\ pos' = IF IsRaise(decoded) THEN pos ELSE pos + 1
                /\ loaders' = IF IsRaise(decoded) THEN loaders
                              ELSE SetCropSizes(loaders, decoded.items[1].s,
                                                decoded.items[3].n)
                /\ processed' = IF IsRaise(decoded) THEN processed
                                ELSE Append(processed, mp)
    /\ UNCHANGED <<identity, script, fn, param>>
    /\ UNCHANGED <<mapper_vars, shared_vars, models_dir, model_files, profiles_csv, runs, train_vars>>

\* evaluate.main up to its for loop.
EvaluateFindModelFiles(limit) ==
    /\ pc = "start"
    /\ script' = "evaluate"
    /\ fn' = "main"
    /\ LET model_paths == find_model_files(ModelsPath, models_dir)
       IN  model_files' = PyList(SubSeq(model_paths, 1, Min({limit, Len(model_paths)})))
    /\ pos' = 0
    /\ pc' = "scanning"
    /\ runs' = runs + 1
    /\ UNCHANGED <<identity, model_path, param, model_filename, ret>>
    /\ UNCHANGED <<mapper_vars, shared_vars, models_dir, processed, profiles_csv, loaders, train_vars>>

\* One iteration of the for loop of evaluate.main.
EvaluateIteration ==
    /\ pc = "scanning"
    /\ script = "evaluate"
    /\ pos < Len(model_files.items)
    /\ LET mp == model_files.items[pos + 1]
           parsed == Subscript0(evaluate_parse_model_path(mp))
           decoded == IF IsRaise(parsed) THEN parsed
                      ELSE evaluate_get_parameters(parsed.s)
       IN  /\ model_path' = mp
           /\ model_filename' = parsed
           /\ ret' = decoded
           /\ pc' = IF IsRaise(decoded) THEN "raised" ELSE pc
           /\ pos' = IF IsRaise(decoded) THEN pos ELSE pos + 1
           /\ processed' = IF IsRaise(decoded) THEN processed
                           ELSE Append(processed, mp)
           /\ profiles_csv' =
                  IF IsRaise(decoded) THEN profiles_csv
                  ELSE AppendLines(profiles_csv,
                                   evaluate_profile_lines(mp, decoded.items))
    /\ UNCHANGED <<identity, script, fn, param>>
    /\ UNCHANGED <<mapper_vars, shared_vars, models_dir, model_files, runs, loaders, train_vars>>

\* The for loop is through with every model path: main returns.
ScanEnd ==
    /\ pc = "scanning"
    /\ pos = Len(model_files.items)
    /\ pc' = "done"
    /\ UNCHANGED <<identity, model_path, script, fn, param, model_filename, ret>>
    /\ UNCHANGED <<mapper_vars, batch_vars, shared_vars, train_vars>>

NextBatch ==
    \/ \E model_pattern \in Patterns : EmbeddingsFindModelFiles(model_pattern)
    \/ EmbeddingsIteration
    \/ \E limit \in Limits : EvaluateFindModelFiles(limit)
    \/ EvaluateIteration
    \/ ScanEnd

SpecBatch == InitBatch /\ [][NextBatch]_vars

(***************************************************************************)
(* embeddings.main over models of several crop sizes.                      *)
(***************************************************************************)
\* Most weight files of the models directory.
MaxModels == 3

\* Weight files of both granularities and of several crop sizes, and one
\* embeddings.py does not decode.
CropFileNames ==
    { "model_fine_fish_crop4_kernel8_width4_depth16.pt",
      "model_fine_trees_crop32_kernel8_width4_depth16.pt",
      "model_coarse_all_crop4_kernel8_width4_depth16.pt",
      "model_coarse_all_crop24_kernel8_width4_depth16.pt",
      "model_people_crop32_kernel8_width4_depth16.pt" }

CropTrees ==
    {Dir(top, <<>>) :
        top \in {l \in UNION {[1..k -> CropFileNames] : k \in 0..MaxModels} :
                    \A i, j \in DOMAIN l : i # j => l[i] # l[j]}}

InitEmbeddings ==
    /\ identity = NoIdentity
    /\ model_path = ""
    /\ script = ""
    /\ fn = ""
    /\ param = ""
    /\ pc = "start"
    /\ model_filename = PyNone
    /\ ret = PyNone
    /\ stored_targets = <<0, 99>>
    /\ dataloader = PyNone
    /\ index = PyNone
    /\ models_dir \in CropTrees
    /\ model_files = PyNone
    /\ pos = 0
    /\ processed = <<>>
    /\ profiles_csv = PyNone
    /\ runs = 0
    /\ loaders = PyNone
    /\ NoWorkers
    /\ NoTrain

NextEmbeddings ==
    \/ \E model_pattern \in Patterns : EmbeddingsFindModelFiles(model_pattern)
    \/ EmbeddingsIteration
    \/ ScanEnd

SpecEmbeddings == InitEmbeddings /\ [][NextEmbeddings]_vars

(***************************************************************************)
(* Runs, one after the other, of the scripts that write                    *)
(* evaluations/model_profiles.csv.                                         *)
(***************************************************************************)
\* Most runs in a row.
MaxRuns == 3

\* The model paths evaluate_multiclass.main is given.
MulticlassPaths ==
    { "models/model_crop32_kernel8_width4_depth16.pt",
      "models/model_wrn_crop4_width4_depth4.pt",
      "models/model_crop32_kernel8_width4.pt" }

\* Directories of weight files, with no subdirectory.
FlatTrees == {Dir(top, <<>>) : top \in FileLists(MaxFiles)}

profile_fields ==
    << PyStr("crop_size"), PyStr("kernel_size"), PyStr("width_factor"),
       PyStr("depth"), PyStr("accuracy"), PyStr("macs"), PyStr("flops"),
       PyStr("params") >>

\* profile_df.to_csv(profiles_path, mode="a", header=False, index=False) of
\* the frame of the one row profile_.
evaluate_multiclass_profile_lines(name, model_info) ==
    << model_info \o << Measured(name, "accuracy"), Measured(name, "macs"),
                        Measured(name, "flops"), Measured(name, "params") >> >>

InitProfiles ==
    /\ identity = NoIdentity
    /\ model_path = ""
    /\ script = ""
    /\ fn = ""
    /\ param = ""
    /\ pc = "start"
    /\ model_filename = PyNone
    /\ ret = PyNone
    /\ stored_targets = <<>>
    /\ dataloader = PyNone
    /\ index = PyNone
    /\ models_dir \in FlatTrees
    /\ model_files = PyNone
    /\ pos = 0
    /\ processed = <<>>
    /\ profiles_csv = PyNone
    /\ runs = 0
    /\ loaders = PyNone
    /\ NoWorkers
    /\ NoTrain

\* evaluate_multiclass.main: open(profiles_path, "w") empties the file
\* before the header is written; the row of the model is appended after its
\* evaluation, which an exception of the decode does not reach.
EvaluateMulticlassMain(path) ==
    /\ pc = "start"
    /\ script' = "evaluate_multiclass"
    /\ fn' = "main"
    /\ model_path' = path
    /\ model_filename' = evaluate_multiclass_parse_model_path(path)
    /\ ret' = evaluate_multiclass_get_parameters(model_filename'.s)
    /\ pc' = IF IsRaise(ret') THEN "raised" ELSE "done"
    /\ profiles_csv' =
           IF IsRaise(ret') THEN File(<<profile_fields>>)
           ELSE AppendLines(File(<<profile_fields>>),
                            evaluate_multiclass_profile_lines(path, ret'.items))
    /\ processed' = IF IsRaise(ret') THEN processed ELSE Append(processed, path)
    /\ runs' = runs + 1
    /\ UNCHANGED <<identity, param>>
    /\ UNCHANGED <<mapper_vars, shared_vars, models_dir, model_files, pos, loaders, train_vars>>

\* A script is started again after a run has ended; the files stay.
NextRun ==
    /\ pc \in {"done", "raised"}
    /\ runs < MaxRuns
    /\ pc' = "start"
    /\ script' = ""
    /\ fn' = ""
    /\ model_path' = ""
    /\ model_filename' = PyNone
    /\ ret' = PyNone
    /\ model_files' = PyNone
    /\ pos' = 0
    /\ UNCHANGED <<identity, param>>
    /\ UNCHANGED <<mapper_vars, shared_vars, models_dir, processed, profiles_csv, runs, loaders, train_vars>>

NextProfiles ==
    \/ \E path \in MulticlassPaths : EvaluateMulticlassMain(path)
    \/ \E limit \in Limits : EvaluateFindModelFiles(limit)
    \/ EvaluateIteration
    \/ ScanEnd
    \/ NextRun

SpecProfiles == InitProfiles /\ [][NextProfiles]_vars

(***************************************************************************)
(* Workers that share the objects of utility.cifar_utils: each decodes     *)
(* model paths, finds model files, builds a dataloader and sets its crop   *)
(* size, in any order and interleaved with the others.                     *)
(***************************************************************************)
\* dict.setdefault(k) in the place of dict.get(k): a missing key is inserted.
dict_after_setdefault(d, k) == IF HasKey(d, k) THEN d ELSE Append(d, <<k, -1>>)

\* The dict after d.get(k): get inserts nothing.
dict_after_get(d, k) == d

\* The dict after map(d.get, targets) has been consumed.
RECURSIVE AfterMapGet(_, _)
AfterMapGet(d, targets) ==
    IF targets = <<>> THEN d
    ELSE AfterMapGet(dict_after_get(d, targets[1]), Tail(targets))

\* What the workers call their functions with.
WorkerTargets == {<<0, 99>>, <<-1, 100>>}

WorkerPaths ==
    { "models/model_coarse_vehicles_1_crop32_kernel8_width4_depth16.pt",
      "models/model_coarse_small_crop32_kernel8_width4_depth16.pt" }

WorkerTree ==
    Dir(<<"model_.pt">>,
        << <<"fish", Dir(<<"model_fine_fish_crop32_kernel8_width4_depth16.pt">>,
                         <<>>)>> >>)

CropSizes == {4, 32}

InitWorkers ==
    /\ identity = NoIdentity
    /\ model_path = ""
    /\ script = ""
    /\ fn = ""
    /\ param = ""
    /\ pc = "start"
    /\ model_filename = PyNone
    /\ ret = PyNone
    /\ stored_targets = <<>>
    /\ dataloader = PyNone
    /\ index = PyNone
    /\ NoBatch
    /\ NoWorkers
    /\ NoTrain

\* parse_model_path and get_parameters read coarse_class_to_idx.
WorkerDecode(w, mp) ==
    /\ caller' = w
    /\ fn' = "parse_model_path"
    /\ model_path' = mp
    /\ ret' = LET parsed == parse_model_path(mp)
              IN  IF IsRaise(parsed) THEN parsed ELSE get_parameters(parsed.s)
    /\ UNCHANGED <<identity, script, param, pc, model_filename>>
    /\ UNCHANGED <<mapper_vars, batch_vars, tables, datasets, train_vars>>

WorkerFindModelFiles(w) ==
    /\ caller' = w
    /\ fn' = "find_model_files"
    /\ model_path' = ModelsPath
    /\ ret' = PyList(find_model_files(ModelsPath, WorkerTree))
    /\ UNCHANGED <<identity, script, param, pc, model_filename>>
    /\ UNCHANGED <<mapper_vars, batch_vars, tables, datasets, train_vars>>

\* get_test_dataloader and get_validation_dataloader; the test split holds
\* fine indices only.
WorkerGetDataloader(w, type, coarse, targets) ==
    /\ type = "test" => \A i \in DOMAIN targets : targets[i] \in FineIndices
    /\ caller' = w
    /\ fn' = "get_" \o type \o "_dataloader"
    /\ datasets' = [datasets EXCEPT ![w] = Dataset(type, coarse, targets)]
    /\ tables' = IF coarse
                 THEN [tables EXCEPT !.fine_to_coarse_idxs = AfterMapGet(@, targets)]
                 ELSE tables
    /\ model_path' = ""
    /\ ret' = PyNone
    /\ UNCHANGED <<identity, script, param, pc, model_filename>>
    /\ UNCHANGED <<mapper_vars, batch_vars, train_vars>>

WorkerSetCropSize(w, crop_size) ==
    /\ datasets[w] # PyNone
    /\ caller' = w
    /\ fn' = "set_crop_size"
    /\ datasets' = [datasets EXCEPT ![w] = set_crop_size(@, crop_size)]
    /\ model_path' = ""
    /\ ret' = PyNone
    /\ UNCHANGED <<identity, script, param, pc, model_filename>>
    /\ UNCHANGED <<mapper_vars, batch_vars, tables, train_vars>>

NextWorkers ==
    \E w \in Workers :
        \/ \E mp \in WorkerPaths : WorkerDecode(w, mp)
        \/ WorkerFindModelFiles(w)
        \/ \E type \in {"test", "validation"}, coarse \in BOOLEAN,
              targets \in WorkerTargets :
                  WorkerGetDataloader(w, type, coarse, targets)
        \/ \E crop_size \in CropSizes : WorkerSetCropSize(w, crop_size)

SpecWorkers == InitWorkers /\ [][NextWorkers]_vars

(***************************************************************************)
(* train_multiclass.py: a training run, and evaluate_multiclass.main on    *)
(* the weight file it wrote.                                               *)
(***************************************************************************)
\* Most epochs of a run.
MaxEpochs == 3

Losses == 0..MaxLoss

\* The arguments of a run: --crop_size, --kernel_size, --width_factor,
\* --depth and --epochs.
TrainArgs ==
    [crop_size : {4, 24, 32}, kernel_size : {6, 8}, width_factor : {4, 8},
     depth : {16, 28}, epochs : 0..MaxEpochs]

\* fp, from the project path on.
train_fp(a) ==
    "models/last_minute/wrn100class_crop" \o str(a.crop_size) \o "_width"
        \o str(a.width_factor) \o "_depth" \o str(a.depth) \o ".pt"

\* The RandomCrop size set on the dataloaders and the arguments WideResNet
\* is built with: kernel_size is the literal 6.
TrainedModel(a) ==
    [crop_size |-> a.crop_size, kernel_size |-> 6,
     width_factor |-> a.width_factor, depth |-> a.depth]

\* The test of the training loop with <= in the place of <.
is_lowest_loss_or_tie(epoch_loss, lowest_loss_) == epoch_loss <= lowest_loss_

\* if epoch_loss < lowest_loss
is_lowest_loss(epoch_loss, lowest_loss_) == epoch_loss < lowest_loss_

InitTrain ==
    /\ identity = NoIdentity
    /\ model_path = ""
    /\ script = ""
    /\ fn = ""
    /\ param = ""
    /\ pc = "start"
    /\ model_filename = PyNone
    /\ ret = PyNone
    /\ stored_targets = <<>>
    /\ dataloader = PyNone
    /\ index = PyNone
    /\ NoBatch
    /\ NoWorkers
    /\ NoTrain

\* train_multiclass.py up to its training loop.
TrainStart(a) ==
    /\ pc = "start"
    /\ args = PyNone
    /\ script' = "train_multiclass"
    /\ fn' = "__main__"
    /\ args' = a
    /\ model_path' = train_fp(a)
    /\ model' = TrainedModel(a)
    /\ lowest_loss' = np_inf
    /\ epoch' = 0
    /\ pc' = "training"
    /\ UNCHANGED <<identity, param, model_filename, ret, checkpoint, history>>
    /\ UNCHANGED <<mapper_vars, batch_vars, shared_vars>>

\* One epoch of the training loop: epoch_loss is the test loss summed over
\* the batches, and torch.save writes over the file at fp.
TrainEpoch(epoch_loss) ==
    /\ pc = "training"
    /\ epoch < args.epochs
    /\ lowest_loss' = IF is_lowest_loss(epoch_loss, lowest_loss) THEN epoch_loss
                      ELSE lowest_loss
    /\ checkpoint' = IF is_lowest_loss(epoch_loss, lowest_loss)
                     THEN [epoch |-> epoch, loss |-> epoch_loss]
                     ELSE checkpoint
    /\ history' = Append(history,
                         [loss |-> epoch_loss,
                          saved |-> is_lowest_loss(epoch_loss, lowest_loss)])
    /\ epoch' = epoch + 1
    /\ UNCHANGED <<codec_vars, args, model>>
    /\ UNCHANGED <<mapper_vars, batch_vars, shared_vars>>

\* range(args.epochs) is exhausted: the script ends and another can start.
TrainEnd ==
    /\ pc = "training"
    /\ epoch = args.epochs
    /\ pc' = "start"
    /\ UNCHANGED <<identity, model_path, script, fn, param, model_filename, ret>>
    /\ UNCHANGED <<mapper_vars, batch_vars, shared_vars, train_vars>>

\* evaluate_multiclass.main with --model_path the file the training wrote.
EvaluateTrained ==
    /\ checkpoint # PyNone
    /\ EvaluateMulticlassMain(model_path)

NextTrain ==
    \/ \E a \in TrainArgs : TrainStart(a)
    \/ \E epoch_loss \in Losses : TrainEpoch(epoch_loss)
    \/ TrainEnd
    \/ EvaluateTrained

SpecTrain == InitTrain /\ [][NextTrain]_vars

(***************************************************************************)
(* What the claims speak of.                                               *)
(***************************************************************************)
\* The file name without the model_ prefix and the .pt extension, and its
\* underscore-delimited tokens.
Stem == SubSeq(FileName, Len("model_") + 1, Len(FileName) - Len(".pt"))

Tokens == Split(Stem, "_")

HasToken(w) == \E i \in DOMAIN Tokens : Tokens[i] = w

\* A token <p><digits>.
HasNumericToken(p) ==
    \E i \in DOMAIN Tokens :
        /\ StartsWith(Tokens[i], p)
        /\ IsNumeral(SubSeq(Tokens[i], Len(p) + 1, Len(Tokens[i])))

NumericParams == {"crop", "kernel", "width", "depth"}

\* The coarse class names that occur in the file name.
OccurringSuperclasses == {c \in Range(coarse_classes) : Contains(Stem, c)}

\* The index of a superclass token: its position in coarse_classes, and the
\* sentinel -1 for the placeholder.
SuperclassIndex(s) ==
    IF s = "all" THEN -1
    ELSE (CHOOSE i \in DOMAIN coarse_classes : coarse_classes[i] = s) - 1

IdentityTuple(id) ==
    PyTuple(<< PyStr(id.granularity), PyInt(SuperclassIndex(id.superclass)),
               PyInt(id.crop_size), PyInt(id.kernel_size),
               PyInt(id.width_factor), PyInt(id.depth) >>)

\* embeddings.main has finished decoding the file, one way or the other.
EmbeddingsDecodeEnded ==
    fn = "main" /\ script = "embeddings" /\ pc \in {"decoded", "raised"}

InvalidParameterInput == Raise("ValueError", "invalid parameter input")

\* C1: for every identity (granularity, superclass name or placeholder, four
\* positive sizes), decoding the conventionally named file with
\* parse_model_path and get_parameters returns exactly that identity, the
\* superclass as its index 0..19 or as the sentinel -1.
C1_RoundTrip ==
    (EmbeddingsDecodeEnded /\ identity # NoIdentity)
        => ret = IdentityTuple(identity)

C1_Witness ==
    /\ EmbeddingsDecodeEnded
    /\ identity.superclass = "vehicles_2"
    /\ identity.crop_size = 32
    /\ identity.depth = 4
    /\ ret = IdentityTuple(identity)
    /\ ret.items[2] = PyInt(19)

C2_Path == "models/model_class7_crop32_kernel8_width4_depth16.pt"

C2_Values ==
    [p \in ParamNames |->
        CASE p = "class" -> 7
          [] p = "crop" -> 32
          [] p = "kernel" -> 8
          [] p = "width" -> 4
          [] p = "depth" -> 16]

\* C2 as stated: decoding model_class7_crop32_kernel8_width4_depth16.pt with
\* parse_model_path and get_parameters yields superclass 7, crop_size 32,
\* kernel_size 8, width_factor 4, depth 16.
C2_DecodeYieldsRecord ==
    (EmbeddingsDecodeEnded /\ model_path = C2_Path)
        => /\ ret.t = "tuple"
           /\ ret.items[2] = PyInt(7)
           /\ ret.items[3] = PyInt(32)
           /\ ret.items[4] = PyInt(8)
           /\ ret.items[5] = PyInt(4)
           /\ ret.items[6] = PyInt(16)

\* C2 as amended: on model_class7_crop32_kernel8_width4_depth16.pt,
\* get_parameter returns 7, 32, 8, 4, 16 for class, crop, kernel, width and
\* depth, while parse_model_path raises StopIteration, the name holding no
\* superclass name, so that the decode yields no record.
C2_ParametersOfClass7File ==
    model_path = C2_Path
        => /\ (fn = "get_parameter" /\ script = "embeddings" /\ param \in ParamNames)
                => ret = PyInt(C2_Values[param])
           /\ (fn = "main" /\ script = "embeddings")
                => /\ pc = "raised"
                   /\ model_filename = Raise("StopIteration", "")

C2_Witness ==
    /\ model_path = C2_Path
    /\ fn = "get_parameter"
    /\ script = "embeddings"
    /\ param = "depth"
    /\ ret = PyInt(16)

\* C3: decoding a file name that holds the placeholder token all, the
\* substring coarse and the four numeric tokens yields granularity coarse
\* and the sentinel -1 as superclass, never a failure.
C3_PlaceholderYieldsSentinel ==
    (/\ EmbeddingsDecodeEnded
     /\ HasToken("all")
     /\ Contains(Stem, "coarse")
     /\ \A p \in NumericParams : HasNumericToken(p))
        => /\ ret.t = "tuple"
           /\ ret.items[1] = PyStr("coarse")
           /\ ret.items[2] = PyInt(-1)

\* C4: get_parameter returns neither a value nor None for a parameter none
\* of whose tokens is in the name, and a decode that misses a token fails
\* with an error that names the missing parameter.
C4_MissingParameterIsNamed ==
    /\ (/\ fn = "get_parameter"
        /\ script \in {"embeddings", "evaluate"}
        /\ param \in NumericParams
        /\ \A i \in DOMAIN Tokens : ~Contains(Tokens[i], param))
            => (IsRaise(ret) /\ Contains(ret.msg, param))
    /\ \A p \in NumericParams :
        (/\ fn = "main"
         /\ pc \in {"decoded", "raised"}
         /\ \A i \in DOMAIN Tokens : ~Contains(Tokens[i], p))
            => (IsRaise(ret) /\ Contains(ret.msg, p))

\* C5: a file name in which two coarse class names occur, and no
\* placeholder, is not decoded: superclass resolution raises.
C5_TwoSuperclassesRaise ==
    (/\ script = "embeddings"
     /\ fn \in {"main", "superclass_to_idx"}
     /\ Cardinality(OccurringSuperclasses) >= 2
     /\ ~HasToken("all"))
        => /\ (fn = "main" /\ pc # "start") => IsRaise(model_filename)
           /\ (fn = "superclass_to_idx") => IsRaise(ret)

\* C6: a file name that holds neither the placeholder token nor a coarse
\* class name is not decoded by either script: superclass resolution raises,
\* and returns no name.
C6_NoSuperclassRaises ==
    (/\ script \in {"embeddings", "evaluate"}
     /\ fn \in {"main", "superclass_to_idx"}
     /\ OccurringSuperclasses = {}
     /\ ~HasToken("all"))
        => /\ (fn = "main" /\ pc # "start") => IsRaise(model_filename)
           /\ (fn = "superclass_to_idx") => IsRaise(ret)

\* C7: get_granularity raises ValueError("granularity not found") exactly on
\* the names that hold neither coarse nor fine, and returns a granularity on
\* every other name.
C7_UnknownGranularity ==
    fn = "get_granularity"
        => IF ~Contains(FileName, "coarse") /\ ~Contains(FileName, "fine")
           THEN ret = Raise("ValueError", "granularity not found")
           ELSE ret \in {PyStr("coarse"), PyStr("fine")}

C7_Witness ==
    /\ fn = "get_granularity"
    /\ script = "embeddings"
    /\ model_path = "models/model_people_crop32_kernel8_width4_depth16.pt"
    /\ ret = Raise("ValueError", "granularity not found")

\* C8 as stated: every variant of get_parameter accepts param if and only if
\* it is one of class, crop, kernel, width, depth, and raises the error of an
\* invalid parameter for any other, whatever the file name.
C8_EveryVariantAcceptsFive ==
    fn = "get_parameter"
        => (param \notin ParamNames <=> ret = InvalidParameterInput)

\* C8 as amended: get_parameter of embeddings and of evaluate accepts param
\* if and only if it is one of class, crop, kernel, width, depth, and
\* get_parameter of evaluate_multiclass if and only if it is one of crop,
\* kernel, width, depth; any other param raises ValueError("invalid parameter
\* input"), whatever the file name.
C8_AcceptedParameterNames ==
    fn = "get_parameter"
        => LET accepted == IF script = "evaluate_multiclass"
                           THEN ParamNames \ {"class"} ELSE ParamNames
           IN  param \notin accepted <=> ret = InvalidParameterInput

C8_Witness ==
    /\ fn = "get_parameter"
    /\ script = "evaluate_multiclass"
    /\ param = "class"
    /\ HasToken("class7")
    /\ ret = InvalidParameterInput

\* C9: remapping targets to coarse labels never yields None for a target:
\* a fine index outside 0..99 makes the lookup fail.
C9_NoNullCoarseLabel ==
    (dataloader # PyNone /\ param = "coarse")
        => \A i \in DOMAIN dataloader.targets : dataloader.targets[i] # PyNone

\* C10: fine_to_coarse_idxs has exactly 100 items, holds every fine index
\* 0..99 as a key exactly once, and maps each to a value in 0..19; the coarse
\* label of every stored fine index is that value.
C10_FineToCoarseTotal ==
    /\ Len(fine_to_coarse_idxs) = 100
    /\ \A k \in 0..99 :
        /\ Cardinality({i \in DOMAIN fine_to_coarse_idxs :
                            fine_to_coarse_idxs[i][1] = k}) = 1
        /\ Item(fine_to_coarse_idxs, k) \in 0..19
    /\ (dataloader # PyNone /\ param = "coarse")
        => \A i \in DOMAIN stored_targets :
              stored_targets[i] \in 0..99
                  => /\ dataloader.targets[i].t = "int"
                     /\ dataloader.targets[i].n \in 0..19
                     /\ dataloader.targets[i].n
                            = fine_idx_to_coarse[stored_targets[i] + 1]

C10_Witness ==
    /\ fn = "get_test_dataloader"
    /\ param = "coarse"
    /\ stored_targets = <<99, 98, 97>>
    /\ dataloader.targets = <<PyInt(13), PyInt(14), PyInt(8)>>

\* C11: coarse_class_to_idx and coarse_idx_to_class are inverses of each
\* other over their 20 entries, both agree with the position of the name in
\* coarse_classes and with coarse_idxs, and the index superclass_to_idx
\* writes for the superclass a file was named from is that position.
C11_CoarseTablesInverse ==
    /\ Len(coarse_classes) = 20
    /\ Len(coarse_class_to_idx) = 20
    /\ Len(coarse_idx_to_class) = 20
    /\ Len(coarse_idxs) = 20
    /\ \A i \in 0..19 :
        /\ HasKey(coarse_idx_to_class, i)
        /\ HasKey(coarse_class_to_idx, Item(coarse_idx_to_class, i))
        /\ Item(coarse_class_to_idx, Item(coarse_idx_to_class, i)) = i
        /\ Item(coarse_idx_to_class, i) = coarse_classes[i + 1]
    /\ \A n \in Range(coarse_classes) :
        /\ HasKey(coarse_class_to_idx, n)
        /\ HasKey(coarse_idxs, n)
        /\ HasKey(coarse_idx_to_class, Item(coarse_class_to_idx, n))
        /\ Item(coarse_idx_to_class, Item(coarse_class_to_idx, n)) = n
        /\ Item(coarse_idxs, n) = Item(coarse_class_to_idx, n)
    /\ (/\ fn = "superclass_to_idx"
        /\ script = "embeddings"
        /\ identity # NoIdentity
        /\ identity.superclass # "all")
            => \E i \in 0..19 :
                  /\ Item(coarse_idx_to_class, i) = identity.superclass
                  /\ ret = PyStr(Replace(FileName, identity.superclass,
                                         "class" \o str(i)))

C11_Witness ==
    /\ fn = "superclass_to_idx"
    /\ script = "embeddings"
    /\ identity # NoIdentity
    /\ identity.superclass = "vehicles_2"
    /\ Contains(ret.s, "_class19_")

\* C12: remapping the targets to coarse labels keeps their number and their
\* order: when every stored target is a fine index 0..99, the i-th target of
\* the coarse dataloader is the coarse index of the i-th stored target.
C12_RemapElementwise ==
    (/\ dataloader # PyNone
     /\ param = "coarse"
     /\ \A i \in DOMAIN stored_targets : stored_targets[i] \in FineIndices)
        => /\ Len(dataloader.targets) = Len(stored_targets)
           /\ \A i \in 1..Len(stored_targets) :
                 dataloader.targets[i]
                     = PyInt(Item(fine_to_coarse_idxs, stored_targets[i]))

C12_Witness ==
    /\ fn = "get_validation_dataloader"
    /\ param = "coarse"
    /\ stored_targets = <<0, 1, 2>>
    /\ dataloader.targets = <<PyInt(4), PyInt(1), PyInt(14)>>

\* The identity the tokens of BaseTokens(g, s) stand for.
BaseIdentity(g, s) ==
    [granularity |-> g, superclass |-> s, crop_size |-> 32, kernel_size |-> 8,
     width_factor |-> 4, depth |-> 16]

\* C14: the decode does not depend on the order of the tokens: a file name
\* whose six tokens are those of the conventional name in another order
\* decodes to the record of the conventional name.
C14_AnyTokenOrder ==
    EmbeddingsDecodeEnded
        => \A g \in Granularities :
              \A s \in {x \in Superclasses : Contains(Stem, x)} :
                  (/\ Contains(Stem, g)
                   /\ \E tokens \in Rearranged :
                         /\ model_path = PathOf(tokens)
                         /\ Range(tokens) = Range(BaseTokens(g, s)))
                      => ret = IdentityTuple(BaseIdentity(g, s))

\* C16: an exception raised by get_granularity, superclass_to_idx,
\* get_parameter or the decode of main carries the file name it was raised
\* for and names the stage that failed: granularity, superclass or the
\* parameter.
C16_FailureNamesFileAndStage ==
    (/\ script = "embeddings"
     /\ pc = "raised"
     /\ fn = "get_parameter" => param \in ParamNames)
        => /\ \/ Contains(ret.msg, FileName)
              \/ Contains(ret.msg, Stem)
           /\ \E stage \in {"granularity", "superclass"} \cup ParamNames :
                 Contains(ret.msg, stage)

\* C20: get_granularity returns coarse for every name in which coarse
\* occurs, fine occurring too or not, and returns fine exactly for the names
\* in which fine occurs and coarse does not.
C20_CoarseBeforeFine ==
    fn = "get_granularity"
        => /\ Contains(FileName, "coarse") => ret = PyStr("coarse")
           /\ ret = PyStr("fine")
                <=> (Contains(FileName, "fine") /\ ~Contains(FileName, "coarse"))

C20_Witness ==
    /\ fn = "get_granularity"
    /\ script = "embeddings"
    /\ model_path = "models/model_fine_coarse_trees_crop32_kernel8_width4_depth16.pt"
    /\ ret = PyStr("coarse")

\* C19: item i of the dataset, for i from 0 to its length less one, is the
\* image and the target of item i of the wrapped dataset followed by i, and
\* the length of the dataset is the length of the wrapped one; so it is
\* after the targets have been remapped to coarse labels.
C19_ItemCarriesIndex ==
    /\ (fn = "__getitem__" /\ index.n \in 0..(Len(dataloader.targets) - 1))
        => /\ ret.t = "tuple"
           /\ <<ret.items[1], ret.items[2]>>
                  = cifar100_getitem(dataloader.targets, index.n).items
           /\ ret.items[1] = Image(index.n)
           /\ ret.items[2] = dataloader.targets[index.n + 1]
           /\ ret.items[3] = index
    /\ fn = "__len__" => ret = PyInt(Len(stored_targets))

C19_Witness ==
    /\ fn = "__getitem__"
    /\ param = "coarse"
    /\ stored_targets = <<99, 98, 97>>
    /\ index = PyInt(2)
    /\ ret = PyTuple(<<Image(2), PyInt(8), PyInt(2)>>)

\* The decode of main, of the script s, on the model path mp.
Decode(s, mp) ==
    IF s = "embeddings"
    THEN LET parsed == parse_model_path(mp)
         IN  IF IsRaise(parsed) THEN parsed ELSE get_parameters(parsed.s)
    ELSE LET parsed == Subscript0(evaluate_parse_model_path(mp))
         IN  IF IsRaise(parsed) THEN parsed ELSE evaluate_get_parameters(parsed.s)

\* The model paths the scan of script s is to process: all of evaluate.main,
\* those holding the pattern of embeddings.main.
Selected(s, mp) == s = "embeddings" => Contains(mp, param)

\* C15: a model path whose decode fails does not end the scan: when main has
\* ended, every model path of the scan that decodes has been processed.
C15_ScanSkipsUndecodable ==
    (fn = "main" /\ model_files # PyNone /\ pc \in {"done", "raised"})
        => /\ pc = "done"
           /\ \A i \in DOMAIN model_files.items :
                 (/\ Selected(script, model_files.items[i])
                  /\ ~IsRaise(Decode(script, model_files.items[i])))
                     => \E j \in DOMAIN processed :
                           processed[j] = model_files.items[i]

\* The files of a tree of three levels with their directories, as the pairs
\* <<directory, name>>.
FilesUnder(top, dir) ==
    {<<top, dir.files[i]>> : i \in DOMAIN dir.files}
    \cup UNION {
        {<<top \o "/" \o d[1], d[2].files[i]>> : i \in DOMAIN d[2].files}
        \cup UNION {
            {<<top \o "/" \o d[1] \o "/" \o e[1], e[2].files[i]>> :
                i \in DOMAIN e[2].files} : e \in Range(d[2].dirs)}
        : d \in Range(dir.dirs)}

\* C17: find_model_files returns the path of every file under the root, in
\* whatever directory, whose name starts with model_ and ends with .pt, of no
\* other file and of no directory, each path once, whether the name decodes
\* or not.
C17_FindModelFiles ==
    (script = "embeddings" /\ model_files # PyNone)
        => /\ Range(model_files.items)
                  = {f[1] \o "/" \o f[2] :
                        f \in {g \in FilesUnder(ModelsPath, models_dir) :
                                  /\ StartsWith(g[2], "model_")
                                  /\ EndsWith(g[2], ".pt")}}
           /\ Cardinality(Range(model_files.items)) = Len(model_files.items)

C17_Witness ==
    /\ script = "embeddings"
    /\ model_files # PyNone
    /\ model_files.items
           = << "models/model_.pt",
                "models/model_old.pt/model_people_crop32_kernel8_width4_depth16.pt",
                "models/model_old.pt/fish/model_fine_fish_crop32_kernel8_width4_depth16.pt" >>
    /\ models_dir.files
           = << "model_.pt", "my_model_fine_fish_crop32_kernel8_width4_depth16.pt" >>
    /\ IsRaise(Decode("embeddings", model_files.items[1]))

\* A line of model_profiles.csv is a row of the model at path mp.
IsRowOf(line, mp) ==
    \E j \in DOMAIN line : line[j].t = "measured" /\ line[j].of = mp

\* C18: whenever a run that writes model_profiles.csv has ended, the file
\* is a header line followed by rows of the models evaluated so far, one row
\* for each of them: the row of an earlier model is still there.
C18_OneRowPerModel ==
    (/\ pc \in {"done", "raised"}
     /\ script \in {"evaluate", "evaluate_multiclass"}
     /\ processed # <<>>)
        => /\ profiles_csv # PyNone
           /\ Len(profiles_csv.lines) >= 1
           /\ \A j \in DOMAIN profiles_csv.lines[1] :
                 profiles_csv.lines[1][j].t = "str"
           /\ \A i \in DOMAIN processed :
                 Cardinality({k \in 2..Len(profiles_csv.lines) :
                                 IsRowOf(profiles_csv.lines[k], processed[i])}) = 1
           /\ \A k \in 2..Len(profiles_csv.lines) :
                 \E i \in DOMAIN processed :
                     IsRowOf(profiles_csv.lines[k], processed[i])

\* The object a field of a dataset is bound to.
Deref(field) == IF field.t = "ref" THEN tables[field.name] ELSE field

\* C13: the objects of utility.cifar_utils, the 100-to-20 table and the
\* coarse dictionaries among them, are what they were when imported, after
\* any decodes, discoveries, dataloader constructions and set_crop_size
\* calls of the workers, in any interleaving; so are the objects a coarse
\* dataset is bound to.
C13_TablesNeverModified ==
    /\ tables = Hierarchy
    /\ \A w \in Workers :
          (datasets[w] # PyNone /\ datasets[w].classes.t = "ref")
              => /\ Deref(datasets[w].classes) = coarse_classes
                 /\ Deref(datasets[w].class_to_idx) = coarse_idxs

C13_Witness ==
    /\ tables = Hierarchy
    /\ \A w \in Workers :
          /\ datasets[w] # PyNone
          /\ datasets[w].type = "validation"
          /\ datasets[w].classes.t = "ref"
          /\ datasets[w].targets = <<PyNone, PyNone>>
          /\ datasets[w].transforms[1].size = <<4, 4>>
    /\ fn = "parse_model_path"
    /\ ret.t = "tuple"
    /\ ret.items[2] = PyInt(18)

\* A file name less its extension .pt, when it ends with it, and less its
\* prefix model_, when it starts with it.
StripAffixes(name) ==
    LET stem == IF EndsWith(name, ".pt") THEN SubSeq(name, 1, Len(name) - 3)
                ELSE name
    IN  IF StartsWith(stem, "model_") THEN SubSeq(stem, 7, Len(stem)) ELSE stem

\* C21: parse_model_path removes from the last component of the path only
\* the extension .pt at its end and the prefix model_ at its start: the name
\* it resolves the superclass in (embeddings) or returns (evaluate_multiclass)
\* keeps every other character, a model_ or a .pt inside the name included.
C21_StripsOnlyAffixes ==
    (fn = "parse_model_path" /\ script \in {"embeddings", "evaluate_multiclass"})
        => ret = IF script = "embeddings"
                 THEN superclass_to_idx(StripAffixes(FileName))
                 ELSE PyStr(StripAffixes(FileName))

\* C22: in evaluate.main, for every conventionally named file, the name
\* taken as parse_model_path(path)[0] is the whole decoded name, a str in
\* which the superclass is resolved, and get_parameters on it returns the
\* record embeddings.py decodes for the same file.
C22_EvaluateDecodesAsEmbeddings ==
    (/\ script = "evaluate"
     /\ fn = "main"
     /\ identity # NoIdentity)
        => /\ model_filename = parse_model_path(model_path)
           /\ pc \in {"decoded", "raised"}
                => ret = get_parameters(parse_model_path(model_path).s)

\* C23: on a file name in which exactly one of the 20 coarse class names
\* occurs and which has no token all, superclass_to_idx of embeddings.py and
\* of evaluate.py return the same str: the name with the class name replaced
\* by class<index>.
C23_SameSuperclassResolution ==
    (/\ fn = "superclass_to_idx"
     /\ Cardinality(OccurringSuperclasses) = 1
     /\ ~HasToken("all"))
        => \A c \in OccurringSuperclasses :
              ret = PyStr(Replace(FileName, c, "class" \o str(SuperclassIndex(c))))

\* The fine indices fine_to_coarse_idxs maps to each coarse index, and the
\* number of entries of fine_idx_to_coarse that hold it.
FinePreimage ==
    [c \in 0..19 |-> {k \in FineIndices : Get(fine_to_coarse_idxs, k) = PyInt(c)}]

ArrayCount ==
    [c \in 0..19 |->
        Cardinality({i \in DOMAIN fine_idx_to_coarse : fine_idx_to_coarse[i] = c})]

\* C24: fine_to_coarse_idxs is onto the coarse indices 0..19 and balanced,
\* each being the value of exactly 5 fine indices, in the array and in the
\* dict alike; two different fine indices can so have one coarse index, and
\* the coarse target of a dataloader stands for 5 fine indices.
C24_FineToCoarseBalanced ==
    /\ \A c \in 0..19 :
        /\ Cardinality(FinePreimage[c]) = 5
        /\ ArrayCount[c] = 5
    /\ \E c \in 0..19 : \E k1, k2 \in FinePreimage[c] : k1 # k2
    /\ (dataloader # PyNone /\ param = "coarse")
        => \A i \in DOMAIN stored_targets :
              stored_targets[i] \in FineIndices
                  => /\ dataloader.targets[i].t = "int"
                     /\ dataloader.targets[i].n \in 0..19
                     /\ stored_targets[i] \in FinePreimage[dataloader.targets[i].n]
                     /\ Cardinality(FinePreimage[dataloader.targets[i].n]) = 5

C24_Witness ==
    /\ fn = "get_test_dataloader"
    /\ param = "coarse"
    /\ stored_targets = <<6, 7>>
    /\ dataloader.targets = <<PyInt(7), PyInt(7)>>

\* C25: the model evaluate_multiclass.main builds for a weight file
\* train_multiclass.py wrote has the crop size, kernel_size, width_factor
\* and depth of the model that was trained, whatever crop_size, width_factor
\* and depth the training ran with.
C25_SkeletonAsTrained ==
    (/\ script = "evaluate_multiclass"
     /\ fn = "main"
     /\ model # PyNone)
        => ret = PyTuple(<< PyInt(model.crop_size), PyInt(model.kernel_size),
                            PyInt(model.width_factor), PyInt(model.depth) >>)

\* The epochs so far, counted from 0, whose test loss is the lowest so far.
LowestEpochs ==
    {e \in 0..(Len(history) - 1) :
        \A j \in DOMAIN history : history[e + 1].loss <= history[j].loss}

\* An epoch saved exactly when its loss is below the loss of every epoch
\* before it, and the file at fp holds the number and the loss of the
\* earliest of the epochs with the lowest loss.
CheckpointIsEarliestLowest ==
    /\ \A i \in DOMAIN history :
          history[i].saved <=> \A j \in 1..(i - 1) : history[i].loss < history[j].loss
    /\ IF history = <<>> THEN checkpoint = PyNone
       ELSE /\ checkpoint # PyNone
            /\ checkpoint.epoch = Min(LowestEpochs)
            /\ checkpoint.loss = history[checkpoint.epoch + 1].loss
            /\ lowest_loss = checkpoint.loss

\* C26: in the training loop lowest_loss never increases; a checkpoint is
\* written exactly in the epochs whose test loss is strictly below the loss
\* of every earlier epoch; and after any number of epochs the checkpoint on
\* disk holds the epoch number and the loss of the earliest epoch with the
\* lowest test loss so far, a later epoch with the same loss not replacing
\* it.
C26_CheckpointTracksLowestLoss ==
    /\ []CheckpointIsEarliestLowest
    /\ [][lowest_loss' <= lowest_loss]_vars

C26_Witness ==
    /\ Len(history) = 3
    /\ history[1].loss = 2
    /\ history[2].loss = 1
    /\ history[3].loss = 1
    /\ history[2].saved
    /\ ~history[3].saved
    /\ checkpoint = [epoch |-> 1, loss |-> 1]
    /\ lowest_loss = 1

\* The sizes of the RandomCrop transforms of a dataset.
RandomCropSizes(dataset) ==
    {dataset.transforms[i].size :
        i \in {j \in DOMAIN dataset.transforms :
                  dataset.transforms[j].t = "RandomCrop"}}

\* The last model embeddings.main extracted the embeddings of is the one at
\* model_path, decoded to ret.
EmbeddingsExtracted ==
    /\ script = "embeddings"
    /\ fn = "main"
    /\ loaders # PyNone
    /\ processed # <<>>
    /\ model_path = Last(processed)
    /\ ret.t = "tuple"

\* C27: embeddings.main builds its test and validation dataloaders once and
\* sets their crop size in place for every model; when the embeddings of a
\* model are extracted, the RandomCrop of the test and of the validation
\* dataloader of its granularity has the crop_size decoded from its name,
\* whatever the models before it set.
C27_CropSizeOfExtractedModel ==
    EmbeddingsExtracted
        => \A type \in {"test", "validation"} :
              RandomCropSizes(loaders[type \o "_" \o ret.items[1].s])
                  = {<<ret.items[3].n, ret.items[3].n>>}

C27_Witness ==
    /\ EmbeddingsExtracted
    /\ processed = << "models/model_coarse_all_crop4_kernel8_width4_depth16.pt",
                      "models/model_fine_fish_crop4_kernel8_width4_depth16.pt",
                      "models/model_coarse_all_crop24_kernel8_width4_depth16.pt" >>
    /\ RandomCropSizes(loaders.test_coarse) = {<<24, 24>>}
    /\ RandomCropSizes(loaders.validation_coarse) = {<<24, 24>>}
    /\ RandomCropSizes(loaders.test_fine) = {<<4, 4>>}

=============================================================================
